---- MODULE Spec2Model ----
(***************************************************************************)
(* A model of mnist_mask.py: glyph extraction (max_bounding_box,           *)
(* crop_and_mask), the brightness -> colours cache (valid_colors,          *)
(* random_color), scene composition (create_random_image, random_anchor,   *)
(* do_boxes_intersect) and the batch driver (generate_labeled_data).       *)
(*                                                                         *)
(* Pixel contents are not carried (texture window, grid and stain layers,  *)
(* tinting and blending act on pixels only): the model keeps the geometry, *)
(* the cache, the annotation records and the control state of each         *)
(* routine.  Every draw from Python's random module is a nondeterministic  *)
(* choice.                                                                 *)
(***************************************************************************)
EXTENDS Integers, Sequences, FiniteSets, TLC

(***************************************************************************)
(* Bounds of the model.                                                    *)
(***************************************************************************)
\* Largest canvas edge (xdimension, ydimension of create_random_image;
\* 400 x 300 by default in the source).
MaxCanvas == 5
\* Largest margin (max_overlap of create_random_image; 5 by default).
MaxMargin == 2
\* max_letters of create_random_image (8 by default).
max_letters == 2
\* Number of values a colour channel takes: range(0, 255) in the source,
\* scaled down so that the colour sets can be enumerated.
ChannelRange == 2
\* The default max_brightness (200 in the source), scaled with ChannelRange.
MAX_BRIGHTNESS == 2
\* Largest max_brightness passed to random_color.
MaxBrightnessArg == 3
\* Largest x and y of a contour's bounding rectangle.
MaxCoord == 2
\* Largest number of contours cv2.findContours returns.
MaxContours == 2
\* Largest num_samples and start_id_enumeration of generate_labeled_data.
MaxSamples == 3
MaxStartId == 2
\* Largest width and height of a box handed to do_boxes_intersect.
MaxBoxSize == 2
\* Largest number of pixels of an image handed to mask_by_threshold.
MaxPixels == 2

\* THRESHOLD of the source.
THRESHOLD == 100

\* min_letters of create_random_image (its default).
min_letters == 0

\* Shapes (w, h) = (letter.shape[1], letter.shape[0]) of the resized glyphs
\* the asset pool can yield; the last one is a glyph wider than any canvas.
LetterShapes == {<<1, 1>>, <<2, 3>>, <<4, 4>>, <<MaxCanvas + 1, 2>>}
\* Widths and heights of contour bounding rectangles.
Extents == {1, 2}

None == "None"
IndexError == "IndexError"
\* color_call before random_color was called.
NoColorCall == [max_brightness |-> 0, hit |-> FALSE, result |-> None]
\* crop_result before crop_and_mask was called.
NoCrop == [status |-> None, image |-> <<0, 0>>, mask |-> <<0, 0>>]
\* anchor_direct, intersect_call, threshold_call before the call.
NoAnchorDirect ==
    [w |-> 0, h |-> 0, xdimension |-> 0, ydimension |-> 0, has_list |-> FALSE,
     occupied_boxes |-> <<>>, valid_box_anchors |-> {}, result |-> None]
NoIntersectCall ==
    [box |-> <<>>, other_boxes |-> <<>>, called |-> FALSE, result |-> FALSE]
NoThresholdCall ==
    [image |-> <<>>, thresh |-> 0, inverted |-> TRUE, called |-> FALSE,
     result |-> <<>>]
\* anchor_call before random_anchor was called.
NoAnchorCall == [w |-> 0, h |-> 0, occupied |-> <<>>, result |-> None]

VARIABLES
    \* create_random_image: parameters and locals
    xdimension, ydimension, max_overlap, max_brightness,
    pc, letterfiles, occupied_boxes, matches, anchor_call,
    \* the module-level cache and the last direct random_color call
    VALID_COLORS, computed, color_call,
    \* max_bounding_box / crop_and_mask
    contours, box_result, crop_result,
    \* generate_labeled_data
    num_samples, start_id_enumeration, img_id, annotations, image_files,
    annotations_file, batch_pc, scene_outcome,
    \* the last direct call of random_anchor, of do_boxes_intersect and of
    \* mask_by_threshold: arguments, locals and result
    anchor_direct, intersect_call, threshold_call

sceneVars == <<xdimension, ydimension, max_overlap, max_brightness,
               pc, letterfiles, occupied_boxes, matches, anchor_call>>
colorVars == <<VALID_COLORS, computed, color_call>>
boxVars   == <<contours, box_result, crop_result>>
batchVars == <<num_samples, start_id_enumeration, img_id, annotations,
               image_files, annotations_file, batch_pc, scene_outcome>>
callVars  == <<anchor_direct, intersect_call, threshold_call>>
vars == <<sceneVars, colorVars, boxVars, batchVars, callVars>>

Min(a, b) == IF a <= b THEN a ELSE b
Max(a, b) == IF a >= b THEN a ELSE b

(***************************************************************************)
(* valid_colors, VALID_COLORS, random_color                                *)
(***************************************************************************)
\* range(0, 255): the values of one channel.
Channel == 0 .. (ChannelRange - 1)

valid_colors_le(b) ==
    {c \in Channel \X Channel \X Channel : c[1] + c[2] + c[3] <= b}

\* valid_colors(max_brightness): all (r, g, b) with r + g + b < max_brightness.
valid_colors(b) ==
    {c \in Channel \X Channel \X Channel : c[1] + c[2] + c[3] < b}

\* The cache as the module body leaves it.
InitialValidColors == [k \in {MAX_BRIGHTNESS} |-> valid_colors(MAX_BRIGHTNESS)]

CacheMissAlways(b, cache) == TRUE

\* "if max_brightness not in VALID_COLORS.keys()"
CacheMiss(b, cache) == b \notin DOMAIN cache

\* VALID_COLORS after random_color(b) ran its first two lines.
CacheAfter(b, cache) ==
    IF CacheMiss(b, cache)
    THEN [k \in DOMAIN cache \cup {b} |->
            IF k = b THEN valid_colors(b) ELSE cache[k]]
    ELSE cache

\* Number of valid_colors evaluations per key after random_color(b).
ComputedAfter(b, cache, cnt) ==
    IF CacheMiss(b, cache)
    THEN [k \in DOMAIN cnt \cup {b} |->
            IF k = b THEN (IF b \in DOMAIN cnt THEN cnt[b] + 1 ELSE 1)
            ELSE cnt[k]]
    ELSE cnt

\* random.choice(VALID_COLORS[max_brightness]): any element, IndexError
\* on an empty sequence.
RandomColorResults(b, cache) ==
    IF CacheAfter(b, cache)[b] = {} THEN {IndexError}
    ELSE CacheAfter(b, cache)[b]

(***************************************************************************)
(* do_boxes_intersect, random_anchor                                       *)
(* A box is <<<<x, y>>, <<w, h>>>>, as in the source: ((x, y), (w, h)).    *)
(***************************************************************************)
Box(x, y, w, h) == <<<<x, y>>, <<w, h>>>>

do_boxes_intersect_one_sided(box, other_boxes) ==
    \E i \in 1 .. Len(other_boxes) :
        /\ box[1][1] <= other_boxes[i][1][1]
        /\ other_boxes[i][1][1] <= box[1][1] + box[2][1]
        /\ box[1][2] <= other_boxes[i][1][2]
        /\ other_boxes[i][1][2] <= box[1][2] + box[2][2]

\* do_boxes_intersect(box, *other_boxes): other_boxes is a sequence.
do_boxes_intersect(box, other_boxes) ==
    LET x == box[1][1]
        y == box[1][2]
        w == box[2][1]
        h == box[2][2]
    IN \E i \in 1 .. Len(other_boxes) :
         LET other_x == other_boxes[i][1][1]
             other_y == other_boxes[i][1][2]
             other_w == other_boxes[i][2][1]
             other_h == other_boxes[i][2][2]
         IN /\ \/ (other_x <= x /\ x <= other_x + other_w)
               \/ (x <= other_x /\ other_x <= x + w)
            /\ \/ (other_y <= y /\ y <= other_y + other_h)
               \/ (y <= other_y /\ other_y <= y + h)

\* range(0, n) of Python.
Range0(n) == 0 .. (n - 1)

ValidBoxAnchorsOvershoot(w, h, xdim, ydim, occupied) ==
    {a \in Range0(xdim - w + 2) \X Range0(ydim - h + 2) :
        ~ do_boxes_intersect(Box(a[1], a[2], w, h), occupied)}

\* The list random_anchor builds when occupied_boxes is a list and
\* valid_box_anchors is not given.
ValidBoxAnchors(w, h, xdim, ydim, occupied) ==
    {a \in Range0(xdim - w) \X Range0(ydim - h) :
        ~ do_boxes_intersect(Box(a[1], a[2], w, h), occupied)}

RandomAnchorResultsWrap(w, h, xdim, ydim, occupied) ==
    IF ValidBoxAnchors(w, h, xdim, ydim, occupied) = {} THEN {<<0, 0>>}
    ELSE ValidBoxAnchors(w, h, xdim, ydim, occupied)

\* random_anchor with a list of occupied boxes: random.choice of the valid
\* anchors, which raises IndexError when there is none.
RandomAnchorResults(w, h, xdim, ydim, occupied) ==
    IF ValidBoxAnchors(w, h, xdim, ydim, occupied) = {} THEN {IndexError}
    ELSE ValidBoxAnchors(w, h, xdim, ydim, occupied)

OccupiedRegionInflated(x, y, w, h, margin) ==
    Box(x - margin, y - margin, w + 2 * margin, h + 2 * margin)

\* The box create_random_image appends to occupied_boxes for a glyph at
\* (x, y) of size (w, h).
OccupiedRegion(x, y, w, h, margin) ==
    Box(x + margin, y + margin, w - 2 * margin, h - 2 * margin)

\* bounding_box of the match dict: ((x, y), (x + w, y + h)).
MatchBox(x, y, w, h) == <<<<x, y>>, <<x + w, y + h>>>>

(***************************************************************************)
(* create_random_image: the letter loop                                    *)
(***************************************************************************)
SceneIdle ==
    /\ xdimension = MaxCanvas /\ ydimension = MaxCanvas
    /\ max_overlap = 0 /\ max_brightness = MAX_BRIGHTNESS
    /\ pc = "idle" /\ letterfiles = 0
    /\ occupied_boxes = <<>> /\ matches = <<>> /\ anchor_call = NoAnchorCall

ColorIdle ==
    /\ VALID_COLORS = InitialValidColors
    /\ computed = [k \in {MAX_BRIGHTNESS} |-> 1]
    /\ color_call = NoColorCall

BoxIdle ==
    /\ contours = <<>> /\ box_result = None /\ crop_result = NoCrop

BatchIdle ==
    /\ num_samples = 0 /\ start_id_enumeration = 0 /\ img_id = 0
    /\ annotations = <<>> /\ image_files = <<>> /\ annotations_file = None
    /\ batch_pc = "idle" /\ scene_outcome = None

CallIdle ==
    /\ anchor_direct = NoAnchorDirect
    /\ intersect_call = NoIntersectCall
    /\ threshold_call = NoThresholdCall

\* A call of create_random_image with the given parameters.
Init ==
    /\ xdimension \in (MaxCanvas - 1) .. MaxCanvas
    /\ ydimension \in (MaxCanvas - 1) .. MaxCanvas
    /\ max_overlap \in 0 .. MaxMargin
    /\ max_brightness \in {0, MAX_BRIGHTNESS}
    /\ pc = "start" /\ letterfiles = 0
    /\ occupied_boxes = <<>> /\ matches = <<>> /\ anchor_call = NoAnchorCall
    /\ ColorIdle /\ BoxIdle /\ BatchIdle /\ CallIdle

\* num_letters = random.randint(min_letters, max_letters); zero letters
\* return at once, otherwise the letter files are drawn.
ChooseLetters ==
    /\ pc = "start"
    /\ \E n \in min_letters .. max_letters :
         /\ letterfiles' = n
         /\ pc' = IF n = 0 THEN "returned" ELSE "letters"
    /\ UNCHANGED <<xdimension, ydimension, max_overlap, max_brightness,
                   occupied_boxes, matches, anchor_call>>
    /\ UNCHANGED <<colorVars, boxVars, batchVars, callVars>>

\* One pass of "for label, root, l in letterfiles": resize, random_color,
\* random_anchor, blend, record.  An exception of random_color or
\* random_anchor leaves create_random_image.
PlaceLetter ==
    /\ pc = "letters" /\ letterfiles > 0
    /\ VALID_COLORS' = CacheAfter(max_brightness, VALID_COLORS)
    /\ computed' = ComputedAfter(max_brightness, VALID_COLORS, computed)
    /\ IF CacheAfter(max_brightness, VALID_COLORS)[max_brightness] = {}
       THEN /\ pc' = "raised"
            /\ UNCHANGED <<letterfiles, occupied_boxes, matches, anchor_call>>
       ELSE \E shape \in LetterShapes :
            \E a \in RandomAnchorResults(shape[1], shape[2], xdimension,
                                         ydimension, occupied_boxes) :
              /\ anchor_call' = [w |-> shape[1], h |-> shape[2],
                                 occupied |-> occupied_boxes, result |-> a]
              /\ IF a = IndexError
                 THEN /\ pc' = "raised"
                      /\ UNCHANGED <<letterfiles, occupied_boxes, matches>>
                 ELSE /\ occupied_boxes' =
                            Append(occupied_boxes,
                                   OccupiedRegion(a[1], a[2], shape[1],
                                                  shape[2], max_overlap))
                      /\ matches' =
                            Append(matches,
                                   [bounding_box |->
                                        MatchBox(a[1], a[2], shape[1],
                                                 shape[2])])
                      /\ letterfiles' = letterfiles - 1
                      /\ pc' = "letters"
    /\ UNCHANGED <<xdimension, ydimension, max_overlap, max_brightness>>
    /\ UNCHANGED <<color_call, boxVars, batchVars, callVars>>

\* "return image, matches" after the loop.
ReturnScene ==
    /\ pc = "letters" /\ letterfiles = 0
    /\ pc' = "returned"
    /\ UNCHANGED <<xdimension, ydimension, max_overlap, max_brightness,
                   letterfiles, occupied_boxes, matches, anchor_call>>
    /\ UNCHANGED <<colorVars, boxVars, batchVars, callVars>>

Next == ChooseLetters \/ PlaceLetter \/ ReturnScene

Spec == Init /\ [][Next]_vars

(***************************************************************************)
(* Properties of create_random_image and random_anchor                     *)
(***************************************************************************)
\* The glyph box of match i as ((x, y), (w, h)), read back from its
\* recorded corners.
GlyphBox(i) ==
    LET bb == matches[i].bounding_box
    IN Box(bb[1][1], bb[1][2], bb[2][1] - bb[1][1], bb[2][2] - bb[1][2])

\* C1: every recorded match bounding box ((x, y), (x + w, y + h)) has
\* 0 <= x, 0 <= y, x + w <= canvas width and y + h <= canvas height.
C1_BoxesWithinCanvas ==
    \A i \in 1 .. Len(matches) :
        LET bb == matches[i].bounding_box
        IN /\ 0 <= bb[1][1] /\ 0 <= bb[1][2]
           /\ bb[2][1] <= xdimension /\ bb[2][2] <= ydimension

C1_Witness == pc = "returned" /\ Len(matches) >= 2

\* C2: the recorded occupied regions of two distinct glyphs of a scene never
\* satisfy do_boxes_intersect, in either argument order, whatever the glyph
\* sizes.
C2_OccupiedRegionsDisjoint ==
    \A i, j \in 1 .. Len(occupied_boxes) :
        i # j => ~ do_boxes_intersect(occupied_boxes[i], <<occupied_boxes[j]>>)

\* Closed-interval overlap of two glyph boxes, and their distance.
Gap(lo1, hi1, lo2, hi2) == Max(lo1 - hi2, lo2 - hi1)
BoxGap(b1, b2) ==
    Max(Gap(b1[1][1], b1[1][1] + b1[2][1], b2[1][1], b2[1][1] + b2[2][1]),
        Gap(b1[1][2], b1[1][2] + b1[2][2], b2[1][2], b2[1][2] + b2[2][2]))

\* C3 as stated: each occupied region is the glyph's box enlarged by the
\* margin on all four sides, and a later glyph's box stays at least the
\* margin away from every earlier glyph's box.
C3_RegionsInflatedKeepGap ==
    /\ \A i \in 1 .. Len(occupied_boxes) :
         LET g == GlyphBox(i)
         IN occupied_boxes[i] = Box(g[1][1] - max_overlap, g[1][2] - max_overlap,
                                    g[2][1] + 2 * max_overlap,
                                    g[2][2] + 2 * max_overlap)
    /\ \A i, j \in 1 .. Len(matches) :
         i < j => BoxGap(GlyphBox(i), GlyphBox(j)) >= max_overlap

\* C3 amended: each occupied region is the glyph's box shrunk by the margin
\* on all four sides (its corners moved inwards by max_overlap), and a later
\* glyph's box never satisfies do_boxes_intersect with the shrunk region of
\* an earlier glyph.
C3_RegionsShrunkAvoided ==
    /\ Len(occupied_boxes) = Len(matches)
    /\ \A i \in 1 .. Len(occupied_boxes) :
         LET bb == matches[i].bounding_box
             r  == occupied_boxes[i]
         IN /\ r[1][1] = bb[1][1] + max_overlap
            /\ r[1][2] = bb[1][2] + max_overlap
            /\ r[1][1] + r[2][1] = bb[2][1] - max_overlap
            /\ r[1][2] + r[2][2] = bb[2][2] - max_overlap
    /\ \A i, j \in 1 .. Len(matches) :
         i < j => ~ do_boxes_intersect(GlyphBox(j), <<occupied_boxes[i]>>)

\* Two glyphs placed with a positive margin, their boxes overlapping.
C3_Witness ==
    /\ max_overlap > 0 /\ Len(matches) = 2
    /\ BoxGap(GlyphBox(1), GlyphBox(2)) < 0

\* Every anchor that keeps the box inside the canvas and off the occupied
\* regions, both edges of the canvas included.
CanvasAnchors(w, h, occupied) ==
    {a \in (0 .. (xdimension - w)) \X (0 .. (ydimension - h)) :
        ~ do_boxes_intersect(Box(a[1], a[2], w, h), occupied)}

\* C4: when no anchor in the canvas yields a box that avoids every occupied
\* region, random_anchor ends in an error instead of a position, and no
\* match is recorded for that glyph.
C4_NoAnchorRaises ==
    (/\ anchor_call.result # None
     /\ CanvasAnchors(anchor_call.w, anchor_call.h, anchor_call.occupied) = {})
    => /\ anchor_call.result = IndexError
       /\ pc = "raised"
       /\ Len(matches) = Len(anchor_call.occupied)
       /\ occupied_boxes = anchor_call.occupied

\* A glyph that fits the canvas, with every anchor blocked by earlier glyphs.
C4_Witness ==
    /\ anchor_call.result # None
    /\ anchor_call.w <= xdimension /\ anchor_call.h <= ydimension
    /\ Len(anchor_call.occupied) > 0
    /\ CanvasAnchors(anchor_call.w, anchor_call.h, anchor_call.occupied) = {}
    /\ pc = "raised"

(***************************************************************************)
(* random_color called on its own                                          *)
(***************************************************************************)
InitColor == SceneIdle /\ ColorIdle /\ BoxIdle /\ BatchIdle /\ CallIdle

\* random_color(max_brightness): fill the cache on a miss, then
\* random.choice of the cached tuple.
RandomColor ==
    /\ pc = "idle" /\ batch_pc = "idle"
    /\ \E b \in (-1) .. MaxBrightnessArg :
       \E r \in RandomColorResults(b, VALID_COLORS) :
         /\ VALID_COLORS' = CacheAfter(b, VALID_COLORS)
         /\ computed' = ComputedAfter(b, VALID_COLORS, computed)
         /\ color_call' = [max_brightness |-> b,
                           hit |-> ~ CacheMiss(b, VALID_COLORS),
                           result |-> r]
    /\ UNCHANGED <<sceneVars, boxVars, batchVars, callVars>>

NextColor == RandomColor

SpecColor == InitColor /\ [][NextColor]_vars

C6_CacheOnlyGrows ==
    [][/\ \A k \in DOMAIN VALID_COLORS :
            /\ k \in DOMAIN VALID_COLORS'
            /\ VALID_COLORS'[k] = VALID_COLORS[k]
       /\ DOMAIN computed' = DOMAIN VALID_COLORS'
       /\ \A k \in DOMAIN computed' : computed'[k] <= 1]_vars

\* A failing call that found its (empty) entry already cached.
C6_Witness ==
    /\ color_call.hit
    /\ color_call.result = IndexError
    /\ computed[color_call.max_brightness] = 1
    /\ Cardinality(DOMAIN VALID_COLORS) >= 3

(***************************************************************************)
(* max_bounding_box, crop_and_mask                                         *)
(* A contour is given by its cv2.boundingRect <<x, y, w, h>>; contours is  *)
(* what cv2.findContours returns for the thresholded mask.                 *)
(***************************************************************************)
Rects == (0 .. MaxCoord) \X (0 .. MaxCoord) \X Extents \X Extents

SeqsUpTo(S, n) == UNION {[1 .. k -> S] : k \in 0 .. n}

\* Shape (width, height) of the image the contours were found in.
ImageShape == <<MaxCoord + 2, MaxCoord + 2>>

BoxSeedZero(cs) == <<0, 0, 0, 0>>

\* boxes_xmin, boxes_ymin, boxes_xmax, boxes_ymax before the loop, taken
\* from contours[0].
BoxSeed(cs) == <<cs[1][1], cs[1][2], cs[1][1] + cs[1][3], cs[1][2] + cs[1][4]>>

\* The accumulator after the loop has run over contours i .. Len(cs).
RECURSIVE BoxLoop(_, _, _)
BoxLoop(cs, i, acc) ==
    IF i > Len(cs) THEN acc
    ELSE BoxLoop(cs, i + 1,
                 <<Min(cs[i][1], acc[1]), Min(cs[i][2], acc[2]),
                   Max(cs[i][1] + cs[i][3], acc[3]),
                   Max(cs[i][2] + cs[i][4], acc[4])>>)

max_bounding_box_unguarded(cs) ==
    LET acc == BoxLoop(cs, 1, <<0, 0, 0, 0>>)
    IN <<<<acc[1], acc[2]>>, <<acc[3], acc[4]>>>>

\* max_bounding_box: contours[0] raises IndexError on an empty list.
max_bounding_box(cs) ==
    IF Len(cs) = 0 THEN IndexError
    ELSE LET acc == BoxLoop(cs, 1, BoxSeed(cs))
         IN <<<<acc[1], acc[2]>>, <<acc[3], acc[4]>>>>

InitBox ==
    /\ SceneIdle /\ ColorIdle /\ BatchIdle /\ CallIdle
    /\ contours \in SeqsUpTo(Rects, MaxContours)
    /\ box_result = None /\ crop_result = NoCrop

\* A direct call of max_bounding_box(mask).
CallMaxBoundingBox ==
    /\ pc = "idle" /\ batch_pc = "idle"
    /\ box_result = None /\ crop_result.status = None
    /\ box_result' = max_bounding_box(contours)
    /\ UNCHANGED <<contours, crop_result, sceneVars, colorVars, batchVars, callVars>>

\* crop_and_mask(image, debug): the exception of max_bounding_box leaves
\* it; otherwise image and mask are cut to the box, or, with debug, the
\* box is drawn and both keep their shape.
CallCropAndMask ==
    /\ pc = "idle" /\ batch_pc = "idle"
    /\ box_result = None /\ crop_result.status = None
    /\ box_result' = max_bounding_box(contours)
    /\ \E debug \in BOOLEAN :
         crop_result' =
           IF max_bounding_box(contours) = IndexError
           THEN [status |-> IndexError, image |-> <<0, 0>>, mask |-> <<0, 0>>]
           ELSE LET b == max_bounding_box(contours)
                    cut == <<b[2][1] - b[1][1], b[2][2] - b[1][2]>>
                IN IF debug
                   THEN [status |-> "returned", image |-> ImageShape,
                         mask |-> ImageShape]
                   ELSE [status |-> "returned", image |-> cut, mask |-> cut]
    /\ UNCHANGED <<contours, sceneVars, colorVars, batchVars, callVars>>

NextBox == CallMaxBoundingBox \/ CallCropAndMask

SpecBox == InitBox /\ [][NextBox]_vars

SetMin(S) == CHOOSE m \in S : \A n \in S : m <= n
SetMax(S) == CHOOSE m \in S : \A n \in S : m >= n

\* C7: for a non-empty list of contour rectangles max_bounding_box returns
\* ((xmin, ymin), (xmax, ymax)) with xmin, ymin the least x, y and xmax, ymax
\* the greatest x + w, y + h over all rectangles, whatever their order.
C7_UnionOfContourBoxes ==
    (Len(contours) > 0 /\ box_result # None) =>
        LET I == 1 .. Len(contours)
        IN box_result =
             <<<<SetMin({contours[i][1] : i \in I}),
                 SetMin({contours[i][2] : i \in I})>>,
               <<SetMax({contours[i][1] + contours[i][3] : i \in I}),
                 SetMax({contours[i][2] + contours[i][4] : i \in I})>>>>

\* Two contours away from the origin, the second one the leftmost and the
\* lowest-reaching.
C7_Witness ==
    /\ Len(contours) = 2 /\ box_result # None
    /\ contours[1][1] > contours[2][1] /\ contours[2][1] > 0
    /\ contours[1][2] > 0 /\ contours[2][2] > 0
    /\ contours[1][2] + contours[1][4] < contours[2][2] + contours[2][4]

\* C8: with zero contours max_bounding_box, and with it crop_and_mask, fails
\* with an error and returns no bounding box, crop or mask.
C8_NoContoursRaises ==
    Len(contours) = 0 =>
        /\ box_result # None => box_result = IndexError
        /\ crop_result.status # None => crop_result.status = IndexError

C8_Witness ==
    /\ Len(contours) = 0
    /\ box_result = IndexError /\ crop_result.status = IndexError

(***************************************************************************)
(* generate_labeled_data                                                   *)
(* create_random_image() is one step here: it returns a match list or      *)
(* raises (Spec above shows both outcomes).                                *)
(***************************************************************************)
\* Match lists a scene can come back with: () for zero letters, or the
\* recorded matches.
SceneMatches ==
    {<<>>,
     <<[bounding_box |-> MatchBox(0, 0, 1, 1)]>>,
     <<[bounding_box |-> MatchBox(0, 0, 1, 1)],
       [bounding_box |-> MatchBox(2, 2, 1, 1)]>>}

\* imagefilename = str(img_id) + ".jpg"
ImageFileName(id) == <<id, ".jpg">>

LoopRangeFromZero(s, n) == 0 .. (n - 1)

\* range(start_id_enumeration, num_samples)
LoopRange(s, n) == s .. (n - 1)

InitBatch ==
    /\ SceneIdle /\ ColorIdle /\ BoxIdle /\ CallIdle
    /\ num_samples \in 0 .. MaxSamples
    /\ start_id_enumeration \in 0 .. MaxStartId
    /\ img_id = start_id_enumeration
    /\ annotations = <<>> /\ image_files = <<>> /\ annotations_file = None
    /\ batch_pc = "loop" /\ scene_outcome = None

\* One pass of "for img_id in range(...)": compose the scene, write the
\* image, note the annotation.  An exception of create_random_image is not
\* caught: it leaves generate_labeled_data before anything is saved.
LoopIteration ==
    /\ batch_pc = "loop"
    /\ img_id \in LoopRange(start_id_enumeration, num_samples)
    /\ \/ \E m \in SceneMatches :
            /\ scene_outcome' = "returned"
            /\ image_files' = Append(image_files, ImageFileName(img_id))
            /\ annotations' = Append(annotations,
                                     [filepath |-> ImageFileName(img_id),
                                      matches |-> m])
            /\ img_id' = img_id + 1
            /\ UNCHANGED batch_pc
       \/ /\ scene_outcome' = "raised"
          /\ batch_pc' = "raised"
          /\ UNCHANGED <<image_files, annotations, img_id>>
    /\ UNCHANGED <<num_samples, start_id_enumeration, annotations_file>>
    /\ UNCHANGED <<sceneVars, colorVars, boxVars, callVars>>

\* After the loop: json.dump(annotations, annotations_filehandle).
SaveAnnotations ==
    /\ batch_pc = "loop"
    /\ img_id \notin LoopRange(start_id_enumeration, num_samples)
    /\ annotations_file' = annotations
    /\ batch_pc' = "saved"
    /\ UNCHANGED <<num_samples, start_id_enumeration, img_id, annotations,
                   image_files, scene_outcome>>
    /\ UNCHANGED <<sceneVars, colorVars, boxVars, callVars>>

NextBatch == LoopIteration \/ SaveAnnotations

SpecBatch == InitBatch /\ [][NextBatch]_vars

\* C9: generate_labeled_data(num_samples, start_id_enumeration = s) creates
\* exactly num_samples images and num_samples annotation records, with the
\* file ids s, s + 1, ..., s + num_samples - 1.
C9_GeneratesNumSamples ==
    batch_pc = "saved" =>
        /\ Len(image_files) = num_samples
        /\ Len(annotations_file) = num_samples
        /\ \A i \in 1 .. Len(annotations_file) :
             annotations_file[i].filepath =
                 ImageFileName(start_id_enumeration + i - 1)

\* C10: a scene whose composition fails aborts only that scene: the batch
\* is not terminated by the error, the remaining scenes are still attempted
\* and the annotation records of the scenes already generated are kept.
C10_SceneFailureKeepsBatch ==
    scene_outcome = "raised" =>
        /\ batch_pc # "raised"
        /\ batch_pc = "saved" => Len(annotations_file) = Len(annotations)

(***************************************************************************)
(* random_anchor called on its own, with occupied_boxes None (as           *)
(* random_window calls it) or a list (as create_random_image calls it)     *)
(***************************************************************************)
ValueError == "ValueError"

\* Occupied regions handed to a direct call.
OccupiedSamples == {Box(0, 0, 1, 1), Box(2, 1, 1, 2), Box(1, 1, 0, 0)}

\* The pairs random.randint(0, xdimension - w), random.randint(0,
\* ydimension - h) can yield: both ends included.
RandintAnchors(w, h, xdim, ydim) == (0 .. (xdim - w)) \X (0 .. (ydim - h))

InitAnchor ==
    /\ SceneIdle /\ ColorIdle /\ BoxIdle /\ BatchIdle
    /\ intersect_call = NoIntersectCall /\ threshold_call = NoThresholdCall
    /\ \E shape \in LetterShapes :
       \E xdim, ydim \in (MaxCanvas - 1) .. MaxCanvas :
       \E list \in BOOLEAN :
       \E occ \in SeqsUpTo(OccupiedSamples, 2) :
         /\ list \/ occ = <<>>
         /\ anchor_direct =
              [w |-> shape[1], h |-> shape[2],
               xdimension |-> xdim, ydimension |-> ydim,
               has_list |-> list, occupied_boxes |-> occ,
               valid_box_anchors |-> {}, result |-> None]

\* random_anchor(w, h, xdimension, ydimension, occupied_boxes): without a
\* list two random.randint draws (ValueError on an empty range); with a list
\* random.choice of valid_box_anchors.
CallRandomAnchor ==
    /\ pc = "idle" /\ batch_pc = "idle"
    /\ anchor_direct.result = None
    /\ LET c == anchor_direct
           anchors ==
             IF c.has_list
             THEN ValidBoxAnchors(c.w, c.h, c.xdimension, c.ydimension,
                                  c.occupied_boxes)
             ELSE RandintAnchors(c.w, c.h, c.xdimension, c.ydimension)
       IN IF anchors = {}
          THEN anchor_direct' =
                 [c EXCEPT !.result =
                     IF c.has_list THEN IndexError ELSE ValueError]
          ELSE \E a \in anchors :
                 anchor_direct' =
                   [c EXCEPT !.valid_box_anchors = anchors, !.result = a]
    /\ UNCHANGED <<intersect_call, threshold_call>>
    /\ UNCHANGED <<sceneVars, colorVars, boxVars, batchVars>>

NextAnchor == CallRandomAnchor

SpecAnchor == InitAnchor /\ [][NextAnchor]_vars

\* C11: with a list of occupied regions (possibly empty) the anchors
\* random_anchor can return are exactly the integer (x, y) with
\* 0 <= x <= canvas_width - box_width and 0 <= y <= canvas_height -
\* box_height whose box intersects no occupied region; with an empty list
\* these are the anchors of the branch without a list.
C11_AnchorsAreAllFittingOnes ==
    (anchor_direct.result # None /\ anchor_direct.has_list) =>
        LET c == anchor_direct
            fitting ==
              {a \in (0 .. (c.xdimension - c.w)) \X (0 .. (c.ydimension - c.h)) :
                 ~ do_boxes_intersect(Box(a[1], a[2], c.w, c.h),
                                      c.occupied_boxes)}
        IN /\ c.valid_box_anchors = fitting
           /\ c.result = IndexError <=> fitting = {}
           /\ c.occupied_boxes = <<>> =>
                c.valid_box_anchors =
                    RandintAnchors(c.w, c.h, c.xdimension, c.ydimension)

(***************************************************************************)
(* do_boxes_intersect called on its own                                    *)
(***************************************************************************)
\* Boxes ((x, y), (w, h)) with non-negative width and height.
BoxInputs ==
    {Box(x, y, w, h) : x \in 0 .. MaxCoord, y \in 0 .. MaxCoord,
                       w \in 0 .. MaxBoxSize, h \in 0 .. MaxBoxSize}

InitIntersect ==
    /\ SceneIdle /\ ColorIdle /\ BoxIdle /\ BatchIdle
    /\ anchor_direct = NoAnchorDirect /\ threshold_call = NoThresholdCall
    /\ \E b \in BoxInputs : \E others \in SeqsUpTo(BoxInputs, 1) :
         intersect_call = [box |-> b, other_boxes |-> others,
                           called |-> FALSE, result |-> FALSE]

\* do_boxes_intersect(box, *other_boxes)
CallDoBoxesIntersect ==
    /\ pc = "idle" /\ batch_pc = "idle"
    /\ intersect_call.box # <<>> /\ ~ intersect_call.called
    /\ intersect_call' =
         [intersect_call EXCEPT
            !.called = TRUE,
            !.result = do_boxes_intersect(intersect_call.box,
                                          intersect_call.other_boxes)]
    /\ UNCHANGED <<anchor_direct, threshold_call>>
    /\ UNCHANGED <<sceneVars, colorVars, boxVars, batchVars>>

NextIntersect == CallDoBoxesIntersect

SpecIntersect == InitIntersect /\ [][NextIntersect]_vars

\* The closed ranges [lo1, hi1] and [lo2, hi2] share a point.
RangesOverlap(lo1, hi1, lo2, hi2) == Max(lo1, lo2) <= Min(hi1, hi2)

\* Full closed-interval overlap of two boxes ((x, y), (w, h)).
ClosedOverlap(a, b) ==
    /\ RangesOverlap(a[1][1], a[1][1] + a[2][1], b[1][1], b[1][1] + b[2][1])
    /\ RangesOverlap(a[1][2], a[1][2] + a[2][2], b[1][2], b[1][2] + b[2][2])

\* Box b contains box a.
Contains(b, a) ==
    /\ b[1][1] <= a[1][1] /\ a[1][1] + a[2][1] <= b[1][1] + b[2][1]
    /\ b[1][2] <= a[1][2] /\ a[1][2] + a[2][2] <= b[1][2] + b[2][2]

\* C12 as stated: there are two boxes A, B with non-negative widths and
\* heights that really overlap (such as B containing A) for which
\* do_boxes_intersect(A, B) is False (A and B range over the boxes the
\* calls are made with).
C12_MissesRealOverlap ==
    intersect_call.called =>
        \E a, b \in BoxInputs :
            ClosedOverlap(a, b) /\ ~ do_boxes_intersect(a, <<b>>)

\* C12 amended: for boxes with non-negative widths and heights
\* do_boxes_intersect(A, B) is True exactly when A and B overlap as closed
\* intervals on both axes; in particular it is True when B contains A.
C12_EqualsClosedOverlap ==
    (intersect_call.called /\ Len(intersect_call.other_boxes) = 1) =>
        /\ intersect_call.result
             <=> ClosedOverlap(intersect_call.box, intersect_call.other_boxes[1])
        /\ Contains(intersect_call.other_boxes[1], intersect_call.box)
             => intersect_call.result

\* B contains A with room on every side, and the call answered True.
C12_Witness ==
    /\ intersect_call.called /\ Len(intersect_call.other_boxes) = 1
    /\ LET a == intersect_call.box
           b == intersect_call.other_boxes[1]
       IN /\ b[1][1] < a[1][1] /\ a[1][1] + a[2][1] < b[1][1] + b[2][1]
          /\ b[1][2] < a[1][2] /\ a[1][2] + a[2][2] < b[1][2] + b[2][2]
    /\ intersect_call.result

(***************************************************************************)
(* mask_by_threshold                                                       *)
(* An image is a sequence of pixels <<b, g, r>>, each channel in 0 .. 255. *)
(***************************************************************************)
\* invert: cv2.bitwise_not on 8-bit channels.
invert(px) == <<255 - px[1], 255 - px[2], 255 - px[3]>>

\* cv2.cvtColor(image, cv2.COLOR_BGR2GRAY) on one 8-bit pixel: the
\* fixed-point form of 0.114 B + 0.587 G + 0.299 R, rounded.
Bgr2Gray(px) == (px[1] * 1868 + px[2] * 9617 + px[3] * 4899 + 8192) \div 16384

cv2_threshold_ge(src, thresh, maxval) == IF src >= thresh THEN maxval ELSE 0

\* cv2.threshold with type 0 (THRESH_BINARY) on one pixel: maxval where
\* src > thresh, 0 elsewhere.
cv2_threshold(src, thresh, maxval) == IF src > thresh THEN maxval ELSE 0

\* mask_by_threshold(image, thresh, inverted)
mask_by_threshold(image, thresh, inverted) ==
    [i \in 1 .. Len(image) |->
        cv2_threshold(Bgr2Gray(IF inverted THEN image[i] ELSE invert(image[i])),
                      thresh, 255)]

\* Pixels around the threshold: grey ones, their inverses, and a green one
\* whose grey value is the threshold itself.
PixelInputs ==
    {<<v, v, v>> : v \in {0, THRESHOLD - 1, THRESHOLD, THRESHOLD + 1,
                          255 - THRESHOLD, 255}}
    \cup {<<0, 170, 0>>}

InitThreshold ==
    /\ SceneIdle /\ ColorIdle /\ BoxIdle /\ BatchIdle
    /\ anchor_direct = NoAnchorDirect /\ intersect_call = NoIntersectCall
    /\ \E k \in 1 .. MaxPixels : \E img \in [1 .. k -> PixelInputs] :
       \E t \in {0, THRESHOLD} : \E inv \in BOOLEAN :
         threshold_call = [image |-> img, thresh |-> t, inverted |-> inv,
                           called |-> FALSE, result |-> <<>>]

CallMaskByThreshold ==
    /\ pc = "idle" /\ batch_pc = "idle"
    /\ threshold_call.image # <<>> /\ ~ threshold_call.called
    /\ threshold_call' =
         [threshold_call EXCEPT
            !.called = TRUE,
            !.result = mask_by_threshold(threshold_call.image,
                                         threshold_call.thresh,
                                         threshold_call.inverted)]
    /\ UNCHANGED <<anchor_direct, intersect_call>>
    /\ UNCHANGED <<sceneVars, colorVars, boxVars, batchVars>>

NextThreshold == CallMaskByThreshold

SpecThreshold == InitThreshold /\ [][NextThreshold]_vars

\* The grey value mask_by_threshold compares of pixel i of the call.
GrayOf(i) ==
    LET px == threshold_call.image[i]
    IN IF threshold_call.inverted
       THEN (px[1] * 114 + px[2] * 587 + px[3] * 299 + 500) \div 1000
       ELSE ((255 - px[1]) * 114 + (255 - px[2]) * 587
             + (255 - px[3]) * 299 + 500) \div 1000

\* C13 as stated: every pixel whose grey value is greater than or equal to
\* the threshold (so the value 100 itself, by default) becomes 255, every
\* other pixel 0.
C13_AtLeastThresholdIsWhite ==
    threshold_call.called =>
        /\ Len(threshold_call.result) = Len(threshold_call.image)
        /\ \A i \in 1 .. Len(threshold_call.image) :
             threshold_call.result[i] =
                 IF GrayOf(i) >= threshold_call.thresh THEN 255 ELSE 0

\* C13 amended: every pixel whose grey value is strictly greater than the
\* threshold becomes 255 and every other pixel, the value 100 itself
\* included by default, becomes 0; the mask holds only 0 and 255.
C13_AboveThresholdIsWhite ==
    threshold_call.called =>
        /\ Len(threshold_call.result) = Len(threshold_call.image)
        /\ \A i \in 1 .. Len(threshold_call.image) :
             /\ threshold_call.result[i] =
                    IF GrayOf(i) > threshold_call.thresh THEN 255 ELSE 0
             /\ threshold_call.result[i] \in {0, 255}

\* The default threshold, a pixel exactly at it turned black, one above it
\* turned white.
C13_Witness ==
    /\ threshold_call.called /\ threshold_call.thresh = THRESHOLD
    /\ \E i, j \in 1 .. Len(threshold_call.image) :
         /\ GrayOf(i) = THRESHOLD /\ threshold_call.result[i] = 0
         /\ GrayOf(j) = THRESHOLD + 1 /\ threshold_call.result[j] = 255

====
